---- MODULE Spec2Model ----
(***************************************************************************)
(* The deploy command of shipctl (cmd/deploy.go): one attempt reads the    *)
(* service, derives a new task definition from a baseline, retags the      *)
(* images in ECR, registers the task definition, updates the service,      *)
(* waits for it and records the transition in the history.                 *)
(*                                                                         *)
(* A string the code takes apart (an image reference, a formatted          *)
(* message) is a sequence of tokens; a string it only compares or copies   *)
(* is a TLA+ string.                                                       *)
(***************************************************************************)
EXTENDS Integers, Sequences, FiniteSets, TLC

(***************************************************************************)
(* Bounds of the model.                                                    *)
(***************************************************************************)
MaxContainers == 2
MaxDeployments == 2

\* the deployment attempts (runs of the command) against one service
Attempts == {1, 2}

None == "none"

(***************************************************************************)
(* Image reference strings.                                                *)
(***************************************************************************)
ECRHost == "123.dkr.ecr.us-east-1.amazonaws.com"
\* region number 3 is outside the [12] of ECRRegex
NearECRHost == "123.dkr.ecr.us-east-3.amazonaws.com"
PublicHost == "public.example"

\* ECRRegex.MatchString, on the host names the model uses
ECRRegex(hostName) == hostName = ECRHost

LowerComponents == {"app", "api", "proxy"}
DottedComponents == {ECRHost, NearECRHost, PublicHost}
UpperComponents == {"App"}

\* the grammar of github.com/docker/distribution/reference: a name component
\* is lower-case alphanumerics with separators, a host name component may
\* hold upper-case letters
IsNameComponent(t) == t \in LowerComponents \cup DottedComponents
IsHostname(t) == t \in LowerComponents \cup DottedComponents \cup UpperComponents

SourceTags == {"v1", "v2", "latest"}
UniqueIDs == {"01AAAA", "01BBBB"}
IsTag(t) == t \in SourceTags \cup UniqueIDs

\* the part of a reference before its ":tag"
NamePart(s) ==
    IF Len(s) >= 2 /\ s[Len(s) - 1] = ":" THEN SubSeq(s, 1, Len(s) - 2) ELSE s

\* the tag of a reference, "" when it has none
TagPart(s) ==
    IF Len(s) >= 2 /\ s[Len(s) - 1] = ":" THEN s[Len(s)] ELSE ""

\* components separated by "/", the first one possibly a host name
IsName(n) ==
    /\ Len(n) % 2 = 1
    /\ \A i \in 1..Len(n) : i % 2 = 0 => n[i] = "/"
    /\ \A i \in 1..Len(n) : (i % 2 = 1 /\ i > 1) => IsNameComponent(n[i])
    /\ \/ IsNameComponent(n[1])
       \/ Len(n) >= 3 /\ IsHostname(n[1])

\* reference.Parse: an error, or a reference that is Named and, when the
\* string holds a tag, Tagged
ReferenceParse(s) ==
    IF /\ Len(s) >= 1
       /\ IsName(NamePart(s))
       /\ (TagPart(s) # "" => IsTag(TagPart(s)))
    THEN [err |-> FALSE, name |-> NamePart(s), tagged |-> TagPart(s) # "",
          tag |-> TagPart(s)]
    ELSE [err |-> TRUE, name |-> <<>>, tagged |-> FALSE, tag |-> ""]

\* reference.SplitHostname: <<host name, repository name>>
SplitHostname(name) ==
    IF Len(name) >= 3 /\ IsHostname(name[1])
    THEN <<name[1], SubSeq(name, 3, Len(name))>>
    ELSE <<"", name>>

\* parseDockerImage: status "err" (Parse failed), "panic" (the type
\* assertion ref.(reference.Tagged) on a reference without a tag) or "ok"
parseDockerImage(image) ==
    LET ref == ReferenceParse(image) IN
    IF ref.err THEN [status |-> "err", img |-> None]
    ELSE IF ~ref.tagged THEN [status |-> "panic", img |-> None]
    ELSE [status |-> "ok",
          img |-> [Name |-> ref.name,
                   Tag |-> ref.tag,
                   RepositoryName |-> SplitHostname(ref.name)[2],
                   HostName |-> SplitHostname(ref.name)[1]]]

isECRHosted(image) == ECRRegex(image.HostName)

\* fmt.Sprintf("%s:%s", img.Name, id)
SprintfImage(name, id) == name \o <<":", id>>

(***************************************************************************)
(* Task definitions and container definitions.                             *)
(***************************************************************************)
ImgApp == <<ECRHost, "/", "app", ":", "v1">>
ImgApi == <<ECRHost, "/", "api", ":", "v2">>
ImgProxy == <<PublicHost, "/", "proxy", ":", "latest">>
ImgBareApp == <<"app", ":", "v1">>
ImgNoTag == <<ECRHost, "/", "api">>
ImgUpper == <<ECRHost, "/", "App", ":", "v1">>
ImgNear == <<NearECRHost, "/", "api", ":", "v2">>

ContainerImages == {ImgApp, ImgApi, ImgProxy, ImgBareApp, ImgNoTag, ImgUpper, ImgNear}

ContainerNames == <<"web", "sidecar", "worker", "cron">>

\* the container definitions of a baseline whose images are imgs, in order;
\* Name and Memory stand for the fields other than Image
ContainerDefinitionsOf(imgs) ==
    [k \in 1..Len(imgs) |->
        [Name |-> ContainerNames[k], Image |-> imgs[k], Memory |-> 128 * k]]

Family == "web-task"

\* the ARN of revision rev of the family
TaskDefinitionArn(rev) == <<"task-definition", Family, rev>>

\* ecs.TaskDefinition, as the platform returns it
TaskDefinition(rev, containers, cpu) ==
    [TaskDefinitionArn |-> TaskDefinitionArn(rev),
     Revision |-> rev,
     Status |-> "ACTIVE",
     Family |-> Family,
     ContainerDefinitions |-> containers,
     Cpu |-> cpu,
     Memory |-> "512",
     NetworkMode |-> "awsvpc",
     ExecutionRoleArn |-> "role/exec",
     TaskRoleArn |-> "role/task",
     Volumes |-> <<"data">>,
     PlacementConstraints |-> <<"distinctInstance">>,
     RequiresCompatibilities |-> <<"EC2">>]

TopLevelFields ==
    {"Family", "Cpu", "Memory", "NetworkMode", "ExecutionRoleArn", "TaskRoleArn",
     "Volumes", "PlacementConstraints", "RequiresCompatibilities"}

(***************************************************************************)
(* createNewTaskDefinition works on pointers.  The structs they point at   *)
(* are kept in a heap: td maps the pointers to task definitions to their   *)
(* structs, whose ContainerDefinitions is a sequence of pointers, and cd   *)
(* maps the pointers to container definitions to their structs.            *)
(***************************************************************************)
\* the heap holding the task definition execute's taskDef points at
HeapOf(taskDef) ==
    [td |-> ("taskDef" :>
                [taskDef EXCEPT !.ContainerDefinitions =
                    [k \in 1..Len(@) |-> <<"vp", k>>]]),
     cd |-> [p \in {<<"vp", k>> : k \in 1..Len(taskDef.ContainerDefinitions)} |->
                taskDef.ContainerDefinitions[p[2]]]]

\* the task definition the pointer p points at, its containers with it
Deref(heap, p) ==
    [heap.td[p] EXCEPT !.ContainerDefinitions =
        [k \in 1..Len(@) |-> heap.cd[@[k]]]]

\* the variable q bound to the struct itself, no copy made
ShallowCopyAlias(objects, p, q) == [objects |-> objects, ptr |-> p]

\* q := *p, lines 191 and 194: the variable q holds a copy of the struct p
\* points at, the fields of the copy pointing where the struct's fields point
ShallowCopy(objects, p, q) == [objects |-> (q :> objects[p]) @@ objects, ptr |-> q]

\* lines 193-204: the pointers appended to containers in the first k turns of
\* the loop over defs, and the container structs after them; status "err" or
\* "panic" as parseDockerImage gives it
RECURSIVE newContainers(_, _, _, _)
newContainers(id, cd, defs, k) ==
    IF k = 0 THEN [status |-> "ok", containers |-> <<>>, cd |-> cd]
    ELSE LET before == newContainers(id, cd, defs, k - 1)
             v == ShallowCopy(before.cd, defs[k], <<"v", k>>)
             parsed == parseDockerImage(v.objects[v.ptr].Image)
         IN  IF before.status # "ok" THEN before
             ELSE IF parsed.status # "ok"
             THEN [status |-> parsed.status, containers |-> <<>>, cd |-> v.objects]
             ELSE IF isECRHosted(parsed.img)
             THEN [status |-> "ok",
                   containers |-> Append(before.containers, v.ptr),
                   cd |-> [v.objects EXCEPT ![v.ptr].Image =
                               SprintfImage(parsed.img.Name, id)]]
             ELSE [before EXCEPT !.cd = v.objects]

\* lines 190-208 on the heap: the heap when createNewTaskDefinition returns,
\* and the pointer it returns when status is "ok"
createNewTaskDefinitionOnHeap(id, taskDef) ==
    LET heap == HeapOf(taskDef)
        new == ShallowCopy(heap.td, "taskDef", "newTaskDef")
        defs == new.objects["taskDef"].ContainerDefinitions
        built == newContainers(id, heap.cd, defs, Len(defs))
    IN  [status |-> built.status,
         ptr |-> new.ptr,
         heap |-> [td |-> IF built.status = "ok"
                          THEN [new.objects EXCEPT
                                    ![new.ptr].ContainerDefinitions = built.containers]
                          ELSE new.objects,
                   cd |-> built.cd]]

\* what execute's taskDef points at when createNewTaskDefinition has returned
baselineAfter(id, taskDef) ==
    Deref(createNewTaskDefinitionOnHeap(id, taskDef).heap, "taskDef")

\* createNewTaskDefinition passing the containers of other hosts through
createNewTaskDefinitionPassThrough(id, taskDef) ==
    LET run == createNewTaskDefinitionOnHeap(id, taskDef)
    IN  IF run.status # "ok" THEN [status |-> run.status, taskDef |-> None]
        ELSE [status |-> "ok",
              taskDef |-> [taskDef EXCEPT !.ContainerDefinitions =
                  [k \in 1..Len(taskDef.ContainerDefinitions) |->
                      LET v == taskDef.ContainerDefinitions[k]
                          image == parseDockerImage(v.Image).img
                      IN  IF isECRHosted(image)
                          THEN [v EXCEPT !.Image = SprintfImage(image.Name, id)]
                          ELSE v]]]

\* createNewTaskDefinition building the result from named fields, Volumes
\* and the containers' Memory forgotten
createNewTaskDefinitionForgetful(id, taskDef) ==
    LET run == createNewTaskDefinitionOnHeap(id, taskDef)
    IN  IF run.status # "ok" THEN [status |-> run.status, taskDef |-> None]
        ELSE [status |-> "ok",
              taskDef |-> [Deref(run.heap, run.ptr) EXCEPT
                  !.Volumes = <<>>,
                  !.ContainerDefinitions =
                      [k \in 1..Len(@) |-> [@[k] EXCEPT !.Memory = 0]]]]

\* createNewTaskDefinition as execute sees it: the error or the panic, or the
\* task definition the returned pointer points at
createNewTaskDefinition(id, taskDef) ==
    LET run == createNewTaskDefinitionOnHeap(id, taskDef)
    IN  IF run.status # "ok" THEN [status |-> run.status, taskDef |-> None]
        ELSE [status |-> "ok", taskDef |-> Deref(run.heap, run.ptr)]

\* RegisterTaskDefinitionInput handing on the whole task definition
RegisterTaskDefinitionInputWhole(taskDef) == taskDef

\* the ecs.RegisterTaskDefinitionInput registerTaskDefinition builds
RegisterTaskDefinitionInput(taskDef) ==
    [ContainerDefinitions |-> taskDef.ContainerDefinitions,
     Cpu |-> taskDef.Cpu,
     ExecutionRoleArn |-> taskDef.ExecutionRoleArn,
     Family |-> taskDef.Family,
     Memory |-> taskDef.Memory,
     NetworkMode |-> taskDef.NetworkMode,
     PlacementConstraints |-> taskDef.PlacementConstraints,
     TaskRoleArn |-> taskDef.TaskRoleArn,
     Volumes |-> taskDef.Volumes,
     RequiresCompatibilities |-> taskDef.RequiresCompatibilities]

\* the task definition the platform makes of a registration request: the
\* next revision of the family
RegisteredTaskDefinition(params, rev) ==
    [TaskDefinitionArn |-> TaskDefinitionArn(rev),
     Revision |-> rev,
     Status |-> "ACTIVE",
     Family |-> params.Family,
     ContainerDefinitions |-> params.ContainerDefinitions,
     Cpu |-> params.Cpu,
     Memory |-> params.Memory,
     NetworkMode |-> params.NetworkMode,
     ExecutionRoleArn |-> params.ExecutionRoleArn,
     TaskRoleArn |-> params.TaskRoleArn,
     Volumes |-> params.Volumes,
     PlacementConstraints |-> params.PlacementConstraints,
     RequiresCompatibilities |-> params.RequiresCompatibilities]

(***************************************************************************)
(* The --image options.                                                    *)
(***************************************************************************)
\* imageOptions.Set: the option of an argument "repository:tag" appended,
\* the value unchanged when the argument does not match
imageOptionsSet(value, v) ==
    IF Len(v) = 3 /\ IsNameComponent(v[1]) /\ v[2] = ":" /\ IsTag(v[3])
    THEN Append(value, [RepositoryName |-> <<v[1]>>, Tag |-> v[3]])
    ELSE value

RECURSIVE imageOptionsOf(_)
imageOptionsOf(args) ==
    IF args = <<>> THEN <<>>
    ELSE imageOptionsSet(imageOptionsOf(SubSeq(args, 1, Len(args) - 1)), args[Len(args)])

\* imageOptions.Get: the pointer to the first option of the repository, as a
\* sequence holding it, <<>> for nil
imageOptionsGet(value, repoName) ==
    IF \E k \in 1..Len(value) : value[k].RepositoryName = repoName
    THEN <<value[CHOOSE k \in 1..Len(value) :
                     /\ value[k].RepositoryName = repoName
                     /\ \A j \in 1..(k - 1) : value[j].RepositoryName # repoName]>>
    ELSE <<>>

\* the --image arguments of the command lines the model runs
ImageArgs ==
    {<<>>,
     <<<<"app", ":", "v1">>>>,
     <<<<"app", ":", "v1">>, <<"api", ":", "v2">>>>,
     <<<<"app", ":", "v2">>, <<"api", ":", "v2">>, <<"proxy", ":", "latest">>>>,
     <<<<"app", ":", "latest">>, <<"app", ":", "v1">>>>}

(***************************************************************************)
(* Formatted messages.                                                     *)
(***************************************************************************)
Digit == <<"0", "1", "2", "3", "4", "5", "6", "7", "8", "9">>

\* the decimal digits of n, as %d prints them
RECURSIVE SprintfD(_)
SprintfD(n) ==
    IF n < 10 THEN <<Digit[n + 1]>>
    ELSE SprintfD(n \div 10) \o <<Digit[(n % 10) + 1]>>

\* fmt.Sprintf("deploy: %d -> %d", from, to)
SprintfDeploy(from, to) ==
    <<"deploy:", " ">> \o SprintfD(from) \o <<" ", "->", " ">> \o SprintfD(to)

\* whether the token sequence part occurs in msg
Contains(msg, part) ==
    \E k \in 0..(Len(msg) - Len(part)) : SubSeq(msg, k + 1, k + Len(part)) = part

(***************************************************************************)
(* The collaborators: ECS, ECR, the history manager.                       *)
(***************************************************************************)
Repositories == {<<"app">>, <<"api">>, <<"proxy">>}

\* the registry the attempts start with: repository -> tag -> manifest
InitialRegistry ==
    [r \in Repositories |->
        [t \in SourceTags \cup UniqueIDs |->
            IF r = <<"app">> /\ t = "v1" THEN "sha256:app1"
            ELSE IF r = <<"app">> /\ t = "v2" THEN "sha256:app2"
            ELSE IF r = <<"api">> /\ t = "v2" THEN "sha256:api2"
            ELSE IF r = <<"proxy">> /\ t = "latest" THEN "sha256:proxy"
            ELSE None]]

\* the history the attempts start with: the deployment of revision 2
InitialHistory == <<[revision |-> 2, message |-> SprintfDeploy(1, 2)]>>

\* libecs.SpecifyRevision: the ARN of the given revision, the service's own
\* when the --revision flag is 0
SpecifyRevision(revision, arn) ==
    IF revision > 0 THEN TaskDefinitionArn(revision) ELSE arn

\* ecr.BatchGetImage without an error: the images found under the tag
BatchGetImage(reg, repoName, tag) ==
    IF reg[repoName][tag] = None THEN <<>>
    ELSE <<[ImageManifest |-> reg[repoName][tag]]>>

\* PutImage moving the manifest to the tag: the tags that held it lose it
PutImageRename(reg, repoName, tag, manifest) ==
    [reg EXCEPT ![repoName] =
        [t \in DOMAIN @ |-> IF t = tag THEN manifest
                            ELSE IF @[t] = manifest THEN None ELSE @[t]]]

\* ecr.PutImage without an error: the manifest is tagged in the repository
PutImage(reg, repoName, tag, manifest) ==
    [reg EXCEPT ![repoName][tag] = manifest]

\* the steady state libecs.WaitUpdateService waits for
Converged(svc, arn) == svc.Deployments = 1 /\ svc.TaskDefinition = arn

\* HistoryManager.PushState without an error: one entry appended
PushState(h, revision, message) ==
    Append(h, [revision |-> revision, message |-> message])

\* the sequences over S of length 1..n
SeqsUpTo(S, n) == UNION {[1..k -> S] : k \in 1..n}

VARIABLES
    f,                \* deployCmd of each attempt: the flags
    pc,               \* where each attempt is in RunE/execute
    service,          \* execute's service: what DescribeService returned
    uniqueID,         \* execute's uniqueID
    taskDef,          \* execute's taskDef: the baseline
    newTaskDef,       \* execute's newTaskDef
    registerdTaskDef, \* execute's registerdTaskDef
    i,                \* the index of the container the retag loop is at
    img,              \* tagDockerImage's img: what BatchGetImage returned
    err,              \* the error execute returned
    calls,            \* the calls each attempt made to ECS, ECR and the history
    slack,            \* the notifications each attempt sent
    ecsService,       \* ECS: the service's task definition and deployments
    taskDefs,         \* ECS: the registered revisions of the family
    registry,         \* ECR: repository -> tag -> manifest
    history           \* the history of (cluster, serviceName)

locals == <<service, uniqueID, taskDef, newTaskDef, registerdTaskDef, i, img>>
platform == <<ecsService, taskDefs, registry, history>>
vars == <<f, pc, err, calls, slack, locals, platform>>

\* the state after the flags are parsed, with the attempts of active started
InitWith(active) ==
    /\ \E flags \in [cluster : {"", "prod"}, serviceName : {"", "web"},
                     revision : {0, 1},
                     images : {imageOptionsOf(args) : args \in ImageArgs}] :
           f = [a \in Attempts |-> flags]
    /\ pc = [a \in Attempts |-> IF a \in active THEN "start" ELSE "off"]
    /\ service = [a \in Attempts |-> None]
    /\ uniqueID = [a \in Attempts |-> None]
    /\ taskDef = [a \in Attempts |-> None]
    /\ newTaskDef = [a \in Attempts |-> None]
    /\ registerdTaskDef = [a \in Attempts |-> None]
    /\ i = [a \in Attempts |-> 0]
    /\ img = [a \in Attempts |-> None]
    /\ err = [a \in Attempts |-> None]
    /\ calls = [a \in Attempts |-> <<>>]
    /\ slack = [a \in Attempts |-> <<>>]
    /\ \E d \in 1..MaxDeployments :
           ecsService = [TaskDefinition |-> TaskDefinitionArn(2), Deployments |-> d]
    /\ \E imgs \in SeqsUpTo(ContainerImages, MaxContainers) :
           taskDefs = <<TaskDefinition(1, ContainerDefinitionsOf(imgs), "256"),
                        TaskDefinition(2, ContainerDefinitionsOf(imgs), "1024")>>
    /\ registry = InitialRegistry
    /\ history = InitialHistory

Init == InitWith({1})

\* execute returns the error e
Return(a, e) ==
    /\ pc' = [pc EXCEPT ![a] = "returned"]
    /\ err' = [err EXCEPT ![a] = e]

\* the attempt's goroutine panics: the process dies
Panic(a) ==
    /\ pc' = [pc EXCEPT ![a] = "panicked"]
    /\ UNCHANGED err

Goto(a, label) ==
    /\ pc' = [pc EXCEPT ![a] = label]
    /\ UNCHANGED err

Call(a, call) == calls' = [calls EXCEPT ![a] = Append(@, call)]

Slack(a, severity, msg) ==
    slack' = [slack EXCEPT ![a] = Append(@, [severity |-> severity, msg |-> msg])]

\* lines 66-99: the required flags, the region, the session and the clients,
\* the history manager
Validate(a) ==
    /\ pc[a] = "start"
    /\ IF f[a].cluster = "" THEN Return(a, "--cluster is required")
       ELSE IF f[a].serviceName = "" THEN Return(a, "--service-name is required")
       ELSE IF Len(f[a].images) = 0 THEN Return(a, "--image is required")
       ELSE \/ Return(a, "AWS region is not found")
            \/ Return(a, "NewSession")
            \/ Return(a, "NewHistoryManager")
            \/ Goto(a, "DescribeService")
    /\ UNCHANGED <<f, calls, slack, locals, platform>>

\* isDeploying with the comparison one off
isDeployingOffByOne(svc) == svc.Deployments > 2

\* line 106: len(service.Deployments) > 1
isDeploying(svc) == svc.Deployments > 1

\* lines 101-108
DescribeService(a) ==
    /\ pc[a] = "DescribeService"
    /\ \/ /\ Call(a, [op |-> "DescribeService", ok |-> FALSE])
          /\ Return(a, "DescribeService")
          /\ UNCHANGED service
       \/ /\ Call(a, [op |-> "DescribeService", ok |-> TRUE])
          /\ service' = [service EXCEPT ![a] = ecsService]
          /\ IF isDeploying(ecsService)
             THEN Return(a, "is currently deploying")
             ELSE Goto(a, "uniqueID")
    /\ UNCHANGED <<f, slack, uniqueID, taskDef, newTaskDef, registerdTaskDef, i, img,
                   platform>>

\* lines 110-114: a ULID no attempt has drawn and no image is tagged with
NewUniqueID(a) ==
    /\ pc[a] = "uniqueID"
    /\ \E id \in UniqueIDs :
           /\ \A b \in Attempts : uniqueID[b] # id
           /\ \A r \in Repositories : registry[r][id] = None
           /\ uniqueID' = [uniqueID EXCEPT ![a] = id]
    /\ Goto(a, "DescribeTaskDefinition")
    /\ UNCHANGED <<f, calls, slack, service, taskDef, newTaskDef, registerdTaskDef, i,
                   img, platform>>

\* lines 119-128
DescribeTaskDefinition(a) ==
    /\ pc[a] = "DescribeTaskDefinition"
    /\ LET taskDefArn == SpecifyRevision(f[a].revision, service[a].TaskDefinition) IN
       /\ \/ /\ Call(a, [op |-> "DescribeTaskDefinition", arn |-> taskDefArn,
                         ok |-> FALSE])
             /\ Return(a, "DescribeTaskDefinition")
             /\ UNCHANGED taskDef
          \/ /\ Call(a, [op |-> "DescribeTaskDefinition", arn |-> taskDefArn,
                         ok |-> TRUE])
             /\ \E k \in 1..Len(taskDefs) :
                    /\ taskDefs[k].TaskDefinitionArn = taskDefArn
                    /\ taskDef' = [taskDef EXCEPT ![a] = taskDefs[k]]
             /\ Goto(a, "createNewTaskDefinition")
    /\ UNCHANGED <<f, slack, service, uniqueID, newTaskDef, registerdTaskDef, i, img,
                   platform>>

\* Loop leaving the retag loop one container early
LoopOneShort(defs, k) ==
    IF k < Len(defs) THEN "retag" ELSE "registerTaskDefinition"

\* where the retag loop of lines 135-150 over defs goes with index k: the
\* next container, or past the loop
Loop(defs, k) ==
    IF k <= Len(defs) THEN "retag" ELSE "registerTaskDefinition"

\* lines 130-133
CreateNewTaskDefinition(a) ==
    /\ pc[a] = "createNewTaskDefinition"
    /\ LET created == createNewTaskDefinition(uniqueID[a], taskDef[a]) IN
       CASE created.status = "err" ->
                /\ Return(a, "parseDockerImage")
                /\ UNCHANGED <<newTaskDef, i>>
         [] created.status = "panic" ->
                /\ Panic(a)
                /\ UNCHANGED <<newTaskDef, i>>
         [] OTHER ->
                /\ newTaskDef' = [newTaskDef EXCEPT ![a] = created.taskDef]
                /\ i' = [i EXCEPT ![a] = 1]
                /\ Goto(a, Loop(baselineAfter(uniqueID[a], taskDef[a]).ContainerDefinitions,
                                1))
    /\ taskDef' = [taskDef EXCEPT ![a] = baselineAfter(uniqueID[a], taskDef[a])]
    /\ UNCHANGED <<f, calls, slack, service, uniqueID, registerdTaskDef, img, platform>>

\* the container the retag loop is at, parsed (line 136)
LoopImage(a) == parseDockerImage(taskDef[a].ContainerDefinitions[i[a]].Image)

\* tagDockerImageArgs writing the tag it read
tagDockerImageArgsSameTag(a) ==
    LET image == LoopImage(a).img
        opt == imageOptionsGet(f[a].images, image.RepositoryName)
    IN  [repoName |-> image.RepositoryName, fromTag |-> opt[1].Tag, toTag |-> opt[1].Tag]

\* the arguments of the tagDockerImage call of line 146
tagDockerImageArgs(a) ==
    LET image == LoopImage(a).img
        opt == imageOptionsGet(f[a].images, image.RepositoryName)
    IN  [repoName |-> image.RepositoryName, fromTag |-> opt[1].Tag, toTag |-> uniqueID[a]]

\* lines 135-146 and 258-275: one turn of the loop up to tagDockerImage's
\* BatchGetImage, and the read of img.Images[0]
RetagGet(a) ==
    /\ pc[a] = "retag"
    /\ CASE LoopImage(a).status = "err" ->
                /\ Return(a, "parseDockerImage")
                /\ UNCHANGED <<calls, img>>
         [] LoopImage(a).status = "panic" ->
                /\ Panic(a)
                /\ UNCHANGED <<calls, img>>
         [] OTHER ->
                IF imageOptionsGet(f[a].images, LoopImage(a).img.RepositoryName) = <<>>
                THEN /\ Return(a, "can not found image option")
                     /\ UNCHANGED <<calls, img>>
                ELSE LET args == tagDockerImageArgs(a) IN
                     \/ /\ Call(a, [op |-> "BatchGetImage", repoName |-> args.repoName,
                                    tag |-> args.fromTag, ok |-> FALSE])
                        /\ Return(a, "BatchGetImage")
                        /\ UNCHANGED img
                     \/ /\ args.repoName \in Repositories
                        /\ Call(a, [op |-> "BatchGetImage", repoName |-> args.repoName,
                                    tag |-> args.fromTag, ok |-> TRUE])
                        /\ LET got == BatchGetImage(registry, args.repoName, args.fromTag)
                           IN  IF got = <<>>
                               THEN Panic(a) /\ UNCHANGED img
                               ELSE /\ img' = [img EXCEPT ![a] = got[1]]
                                    /\ Goto(a, "PutImage")
    /\ UNCHANGED <<f, slack, service, uniqueID, taskDef, newTaskDef, registerdTaskDef, i,
                   platform>>

\* lines 274-285 and 147-150: tagDockerImage's PutImage, and the loop's next turn
RetagPut(a) ==
    /\ pc[a] = "PutImage"
    /\ LET args == tagDockerImageArgs(a) IN
       \/ /\ Call(a, [op |-> "PutImage", repoName |-> args.repoName, tag |-> args.toTag,
                      manifest |-> img[a].ImageManifest, ok |-> FALSE])
          /\ Return(a, "PutImage")
          /\ UNCHANGED <<i, registry>>
       \/ /\ Call(a, [op |-> "PutImage", repoName |-> args.repoName, tag |-> args.toTag,
                      manifest |-> img[a].ImageManifest, ok |-> TRUE])
          /\ registry' = PutImage(registry, args.repoName, args.toTag,
                                  img[a].ImageManifest)
          /\ i' = [i EXCEPT ![a] = @ + 1]
          /\ Goto(a, Loop(taskDef[a].ContainerDefinitions, i[a] + 1))
    /\ UNCHANGED <<f, slack, service, uniqueID, taskDef, newTaskDef, registerdTaskDef, img,
                   ecsService, taskDefs, history>>

\* RegisterTaskDefinition going on with the baseline when the registration
\* is rejected
RegisterTaskDefinitionFallback(a) ==
    /\ pc[a] = "registerTaskDefinition"
    /\ LET params == RegisterTaskDefinitionInput(newTaskDef[a])
           registered == RegisteredTaskDefinition(params, Len(taskDefs) + 1)
       IN  \/ /\ Call(a, [op |-> "RegisterTaskDefinition", params |-> params,
                          ok |-> FALSE])
              /\ registerdTaskDef' = [registerdTaskDef EXCEPT ![a] = taskDef[a]]
              /\ Goto(a, "UpdateService")
              /\ UNCHANGED <<taskDefs, slack>>
           \/ /\ Call(a, [op |-> "RegisterTaskDefinition", params |-> params,
                          ok |-> TRUE])
              /\ taskDefs' = Append(taskDefs, registered)
              /\ registerdTaskDef' = [registerdTaskDef EXCEPT ![a] = registered]
              /\ Slack(a, "normal",
                       SprintfDeploy(taskDef[a].Revision, registered.Revision) \o <<"\n">>)
              /\ Goto(a, "UpdateService")
    /\ UNCHANGED <<f, service, uniqueID, taskDef, newTaskDef, i, img, ecsService, registry,
                   history>>

\* lines 152-161 and 236-256: the registration, and the notification of it
RegisterTaskDefinition(a) ==
    /\ pc[a] = "registerTaskDefinition"
    /\ LET params == RegisterTaskDefinitionInput(newTaskDef[a])
           registered == RegisteredTaskDefinition(params, Len(taskDefs) + 1)
       IN  \/ /\ Call(a, [op |-> "RegisterTaskDefinition", params |-> params,
                          ok |-> FALSE])
              /\ Return(a, "RegisterTaskDefinition")
              /\ UNCHANGED <<registerdTaskDef, taskDefs, slack>>
           \/ /\ Call(a, [op |-> "RegisterTaskDefinition", params |-> params,
                          ok |-> TRUE])
              /\ taskDefs' = Append(taskDefs, registered)
              /\ registerdTaskDef' = [registerdTaskDef EXCEPT ![a] = registered]
              /\ Slack(a, "normal",
                       SprintfDeploy(taskDef[a].Revision, registered.Revision) \o <<"\n">>)
              /\ Goto(a, "UpdateService")
    /\ UNCHANGED <<f, service, uniqueID, taskDef, newTaskDef, i, img, ecsService, registry,
                   history>>

\* UpdateServiceTarget handing on the baseline
UpdateServiceTargetBaseline(a) == taskDef[a].TaskDefinitionArn

\* the task definition line 163 hands to libecs.UpdateService
UpdateServiceTarget(a) == registerdTaskDef[a].TaskDefinitionArn

\* lines 163-166
UpdateService(a) ==
    /\ pc[a] = "UpdateService"
    /\ \/ /\ Call(a, [op |-> "UpdateService", arn |-> UpdateServiceTarget(a), ok |-> FALSE])
          /\ Return(a, "UpdateService")
          /\ UNCHANGED ecsService
       \/ /\ ecsService.Deployments < MaxDeployments
          /\ Call(a, [op |-> "UpdateService", arn |-> UpdateServiceTarget(a), ok |-> TRUE])
          /\ ecsService' = [TaskDefinition |-> UpdateServiceTarget(a),
                            Deployments |-> ecsService.Deployments + 1]
          /\ Goto(a, "WaitUpdateService")
    /\ UNCHANGED <<f, slack, locals, taskDefs, registry, history>>

\* WaitUpdateService pointing the service back at the revision it had when
\* the wait fails
WaitUpdateServiceRollback(a) ==
    /\ pc[a] = "WaitUpdateService"
    /\ \/ /\ calls' = [calls EXCEPT ![a] =
                  @ \o <<[op |-> "WaitUpdateService", ok |-> FALSE],
                         [op |-> "UpdateService", arn |-> service[a].TaskDefinition,
                          ok |-> TRUE]>>]
          /\ ecsService' = [ecsService EXCEPT !.TaskDefinition = service[a].TaskDefinition]
          /\ Return(a, "WaitUpdateService")
       \/ /\ ecsService.Deployments = 1
          /\ ecsService.TaskDefinition = registerdTaskDef[a].TaskDefinitionArn
          /\ Call(a, [op |-> "WaitUpdateService", ok |-> TRUE])
          /\ Goto(a, "PushState")
          /\ UNCHANGED ecsService
    /\ UNCHANGED <<f, slack, locals, taskDefs, registry, history>>

\* WaitUpdateService with its error dropped
WaitUpdateServiceUnchecked(a) ==
    /\ pc[a] = "WaitUpdateService"
    /\ \/ Call(a, [op |-> "WaitUpdateService", ok |-> FALSE])
       \/ /\ ecsService.Deployments = 1
          /\ ecsService.TaskDefinition = registerdTaskDef[a].TaskDefinitionArn
          /\ Call(a, [op |-> "WaitUpdateService", ok |-> TRUE])
    /\ Goto(a, "PushState")
    /\ UNCHANGED <<f, slack, locals, platform>>

\* lines 168-173
WaitUpdateService(a) ==
    /\ pc[a] = "WaitUpdateService"
    /\ \/ /\ Call(a, [op |-> "WaitUpdateService", ok |-> FALSE])
          /\ Return(a, "WaitUpdateService")
       \/ /\ Converged(ecsService, registerdTaskDef[a].TaskDefinitionArn)
          /\ Call(a, [op |-> "WaitUpdateService", ok |-> TRUE])
          /\ Goto(a, "PushState")
    /\ UNCHANGED <<f, slack, locals, platform>>

\* PushStateArgs recording the baseline's revision
PushStateArgsBaseline(a) ==
    [revision |-> taskDef[a].Revision,
     message |-> SprintfDeploy(taskDef[a].Revision, registerdTaskDef[a].Revision)]

\* the arguments of the PushState call of lines 175-178
PushStateArgs(a) ==
    [revision |-> registerdTaskDef[a].Revision,
     message |-> SprintfDeploy(taskDef[a].Revision, registerdTaskDef[a].Revision)]

\* lines 175-187
RecordState(a) ==
    /\ pc[a] = "PushState"
    /\ LET args == PushStateArgs(a) IN
       \/ /\ Call(a, [op |-> "PushState", revision |-> args.revision,
                      message |-> args.message, ok |-> FALSE])
          /\ Return(a, "PushState")
          /\ UNCHANGED <<history, slack>>
       \/ /\ Call(a, [op |-> "PushState", revision |-> args.revision,
                      message |-> args.message, ok |-> TRUE])
          /\ history' = PushState(history, args.revision, args.message)
          /\ Slack(a, "good", <<"successfully updated", "\n">>)
          /\ Return(a, None)
    /\ UNCHANGED <<f, locals, ecsService, taskDefs, registry>>

\* RunE returning the error without a notification
RunEQuiet(a) ==
    /\ pc[a] = "returned"
    /\ pc' = [pc EXCEPT ![a] = "exit"]
    /\ UNCHANGED <<f, err, calls, slack, locals, platform>>

\* lines 43-52: the command's RunE after execute returned
RunE(a) ==
    /\ pc[a] = "returned"
    /\ IF err[a] # None
       THEN Slack(a, "danger",
                  <<"failed to deploy. cluster: ", f[a].cluster, ", serviceName: ",
                    f[a].serviceName, "\n">>)
       ELSE UNCHANGED slack
    /\ pc' = [pc EXCEPT ![a] = "exit"]
    /\ UNCHANGED <<f, err, calls, locals, platform>>

\* ECS completes a deployment of the service
Rollout ==
    /\ ecsService.Deployments > 1
    /\ ecsService' = [ecsService EXCEPT !.Deployments = @ - 1]
    /\ UNCHANGED <<f, pc, err, calls, slack, locals, taskDefs, registry, history>>

Next ==
    \/ \E a \in Attempts :
           \/ Validate(a)
           \/ DescribeService(a)
           \/ NewUniqueID(a)
           \/ DescribeTaskDefinition(a)
           \/ CreateNewTaskDefinition(a)
           \/ RetagGet(a)
           \/ RetagPut(a)
           \/ RegisterTaskDefinition(a)
           \/ UpdateService(a)
           \/ WaitUpdateService(a)
           \/ RecordState(a)
           \/ RunE(a)
    \/ Rollout

Spec == Init /\ [][Next]_vars

\* two runs of the command against the same service, with the same flags:
\* --cluster prod --service-name web --image app:v1 --image api:v2
InitRace ==
    /\ InitWith(Attempts)
    /\ f[1].cluster = "prod"
    /\ f[1].serviceName = "web"
    /\ f[1].revision = 0
    /\ f[1].images = imageOptionsOf(<<<<"app", ":", "v1">>, <<"api", ":", "v2">>>>)
    /\ Len(taskDefs[2].ContainerDefinitions) <= 2

SpecRace == InitRace /\ [][Next]_vars

(***************************************************************************)
(* What the properties below speak of.                                     *)
(***************************************************************************)
\* the positions in the attempt's calls of the calls of op
CallsOf(a, op) == {k \in 1..Len(calls[a]) : calls[a][k].op = op}

\* the positions of the calls of op that returned without an error
Succeeded(a, op) == {k \in CallsOf(a, op) : calls[a][k].ok}

\* the positions of the calls of op that returned an error
Rejected(a, op) == {k \in CallsOf(a, op) : ~calls[a][k].ok}

\* execute has returned
Ended(a) == pc[a] \in {"returned", "exit"}

\* execute has returned an error
Failed(a) == Ended(a) /\ err[a] # None

\* execute has returned nil
Deployed(a) == Ended(a) /\ err[a] = None

\* createNewTaskDefinition has returned a task definition
Created(a) == i[a] >= 1

\* the entries the attempts appended to the history
Appended == SubSeq(history, Len(InitialHistory) + 1, Len(history))

\* whether a baseline container's image is hosted by the in-scope registry
InScope(c) ==
    /\ parseDockerImage(c.Image).status = "ok"
    /\ ECRRegex(parseDockerImage(c.Image).img.HostName)

\* C1: an attempt that read more than one deployment of the service has
\* returned the error, and has called neither the registry nor the
\* registration, the update or the history.
C1_AbortWhenDeploying ==
    \A a \in Attempts :
        (Succeeded(a, "DescribeService") # {} /\ service[a].Deployments > 1) =>
            /\ Failed(a)
            /\ err[a] = "is currently deploying"
            /\ \A op \in {"BatchGetImage", "PutImage", "RegisterTaskDefinition",
                          "UpdateService", "PushState"} : CallsOf(a, op) = {}

C1_Witness ==
    \E a \in Attempts :
        /\ Succeeded(a, "DescribeService") # {}
        /\ service[a].Deployments > 1
        /\ pc[a] = "exit"

\* C2: whenever RegisterTaskDefinition has been called, every container of the
\* submitted definition has an image whose tag is the attempt's uniqueID, and
\* an earlier PutImage of this attempt wrote that tag in the container's
\* repository; and when the call is about to be made, the registry holds the tag.
C2_TagsWrittenBeforeRegister ==
    \A a \in Attempts :
        /\ \A k \in CallsOf(a, "RegisterTaskDefinition") :
               \A n \in 1..Len(calls[a][k].params.ContainerDefinitions) :
                   LET image == parseDockerImage(
                                    calls[a][k].params.ContainerDefinitions[n].Image).img
                   IN  /\ image.Tag = uniqueID[a]
                       /\ \E j \in Succeeded(a, "PutImage") :
                              /\ j < k
                              /\ calls[a][j].repoName = image.RepositoryName
                              /\ calls[a][j].tag = image.Tag
        /\ pc[a] = "registerTaskDefinition" =>
               \A n \in 1..Len(newTaskDef[a].ContainerDefinitions) :
                   LET image == parseDockerImage(
                                    newTaskDef[a].ContainerDefinitions[n].Image).img
                   IN  registry[image.RepositoryName][image.Tag] # None

C2_Witness ==
    \E a \in Attempts :
        \E k \in Succeeded(a, "RegisterTaskDefinition") :
            Len(calls[a][k].params.ContainerDefinitions) = 2

\* C3: an attempt calls PushState at most once, and only after its
\* UpdateService and then its WaitUpdateService returned without an error;
\* the history grows by exactly the entries of the successful PushState calls,
\* and an attempt that returned an error for a stage before PushState made no
\* PushState call.
C3_HistoryOnlyAfterConvergence ==
    /\ \A a \in Attempts :
           /\ Cardinality(CallsOf(a, "PushState")) <= 1
           /\ \A k \in CallsOf(a, "PushState") :
                  \E u \in Succeeded(a, "UpdateService") :
                      \E w \in Succeeded(a, "WaitUpdateService") : u < w /\ w < k
           /\ (Failed(a) /\ err[a] # "PushState") => CallsOf(a, "PushState") = {}
           /\ Failed(a) => Succeeded(a, "PushState") = {}
    /\ Len(Appended) = Cardinality({a \in Attempts : Succeeded(a, "PushState") # {}})
    /\ \A n \in 1..Len(Appended) :
           \E a \in Attempts :
               /\ Succeeded(a, "WaitUpdateService") # {}
               /\ Appended[n].revision = registerdTaskDef[a].Revision

C3_Witness ==
    \E a \in Attempts :
        /\ pc[a] = "exit"
        /\ Succeeded(a, "PushState") # {}
        /\ Len(Appended) = 1

\* C4 as claimed: a retag is only ever in progress for a container whose host
\* is the in-scope registry's, and when the retag loop is over the attempt has
\* retagged once per in-scope container of the baseline.
C4_RetagOnlyInScope ==
    \A a \in Attempts :
        /\ pc[a] = "PutImage" => isECRHosted(LoopImage(a).img)
        /\ pc[a] = "registerTaskDefinition" =>
               Cardinality(Succeeded(a, "PutImage")) =
                   Len(SelectSeq(taskDef[a].ContainerDefinitions, InScope))

\* the image reference the claim expects of an in-scope container:
\* host/repository:uniqueID
Rewritten(c, id) ==
    LET image == parseDockerImage(c.Image).img
    IN  [c EXCEPT !.Image = <<image.HostName, "/">> \o image.RepositoryName \o <<":", id>>]

\* C5: the containers of the task definition createNewTaskDefinition returned
\* are the baseline's in-scope containers, in the baseline's order, each with
\* its image rewritten to host/repository:uniqueID, and no other container.
C5_TransformKeepsInScope ==
    \A a \in Attempts :
        Created(a) =>
            LET kept == SelectSeq(taskDef[a].ContainerDefinitions, InScope)
            IN  newTaskDef[a].ContainerDefinitions =
                    [n \in 1..Len(kept) |-> Rewritten(kept[n], uniqueID[a])]

C5_Witness ==
    \E a \in Attempts :
        /\ Created(a)
        /\ Len(taskDef[a].ContainerDefinitions) = 2
        /\ ~InScope(taskDef[a].ContainerDefinitions[1])
        /\ Len(newTaskDef[a].ContainerDefinitions) = 1

\* the positions in defs of the in-scope containers, in order
RECURSIVE InScopePositions(_, _)
InScopePositions(defs, n) ==
    IF n = 0 THEN <<>>
    ELSE IF InScope(defs[n]) THEN Append(InScopePositions(defs, n - 1), n)
    ELSE InScopePositions(defs, n - 1)

\* C6: the task definition createNewTaskDefinition returned has the
\* baseline's value in every top-level field other than the container list,
\* and each of its containers has the Name and the Memory of the baseline
\* container it was made of.
C6_TransformCopiesOtherFields ==
    \A a \in Attempts :
        Created(a) =>
            LET defs == taskDef[a].ContainerDefinitions
                from == InScopePositions(defs, Len(defs))
                made == newTaskDef[a].ContainerDefinitions
            IN  /\ \A fld \in TopLevelFields : newTaskDef[a][fld] = taskDef[a][fld]
                /\ \A n \in 1..Len(made) :
                       /\ n <= Len(from)
                       /\ made[n].Name = defs[from[n]].Name
                       /\ made[n].Memory = defs[from[n]].Memory

C6_Witness ==
    \E a \in Attempts :
        /\ Created(a)
        /\ Len(taskDef[a].ContainerDefinitions) = 2
        /\ Len(newTaskDef[a].ContainerDefinitions) = 1
        /\ newTaskDef[a].ContainerDefinitions[1].Name = "sidecar"
        /\ taskDef[a].Cpu = "256"

\* C7: an attempt whose RegisterTaskDefinition was rejected has returned that
\* error without calling UpdateService or PushState; unless another attempt
\* updated the service, the service has the task definition the attempt read,
\* and the attempt appended nothing to the history.
C7_RegisterFailureLeavesService ==
    \A a \in Attempts :
        Rejected(a, "RegisterTaskDefinition") # {} =>
            /\ Failed(a)
            /\ err[a] = "RegisterTaskDefinition"
            /\ CallsOf(a, "UpdateService") = {}
            /\ CallsOf(a, "PushState") = {}
            /\ (\A b \in Attempts : CallsOf(b, "UpdateService") = {}) =>
                   /\ ecsService.TaskDefinition = service[a].TaskDefinition
                   /\ Appended = <<>>

C7_Witness ==
    \E a \in Attempts :
        /\ Rejected(a, "RegisterTaskDefinition") # {}
        /\ Succeeded(a, "PutImage") # {}
        /\ pc[a] = "exit"

\* C8: an attempt calls UpdateService at most once, with the task definition
\* it registered, and calls nothing but WaitUpdateService and PushState after
\* it; a failure of any of the three makes execute return the error; and a
\* service the attempt (and no other) has updated keeps the registered task
\* definition whatever fails later.
C8_NoRollbackAfterUpdate ==
    \A a \in Attempts :
        /\ Cardinality(CallsOf(a, "UpdateService")) <= 1
        /\ \A k \in CallsOf(a, "UpdateService") :
               /\ calls[a][k].arn = registerdTaskDef[a].TaskDefinitionArn
               /\ \A j \in (k + 1)..Len(calls[a]) :
                      calls[a][j].op \in {"WaitUpdateService", "PushState"}
        /\ \A op \in {"UpdateService", "WaitUpdateService", "PushState"} :
               Rejected(a, op) # {} => Failed(a) /\ err[a] = op
        /\ ( /\ Succeeded(a, "UpdateService") # {}
             /\ \A b \in Attempts \ {a} : CallsOf(b, "UpdateService") = {} ) =>
               ecsService.TaskDefinition = registerdTaskDef[a].TaskDefinitionArn

C8_Witness ==
    \E a \in Attempts :
        /\ Succeeded(a, "UpdateService") # {}
        /\ Rejected(a, "WaitUpdateService") # {}
        /\ pc[a] = "exit"
        /\ ecsService.TaskDefinition # service[a].TaskDefinition

\* C9: when execute has returned nil, the history holds exactly one appended
\* entry with the revision RegisterTaskDefinition assigned in this attempt
\* (the revision under which the platform holds the attempt's new task
\* definition), and the entry's message holds the decimal numbers of the baseline's
\* revision and of the registered one.
C9_HistoryEntryOfSuccess ==
    \A a \in Attempts :
        Deployed(a) =>
            /\ Cardinality(Succeeded(a, "RegisterTaskDefinition")) = 1
            /\ Cardinality(Succeeded(a, "PushState")) = 1
            /\ taskDefs[registerdTaskDef[a].Revision] = registerdTaskDef[a]
            /\ registerdTaskDef[a].ContainerDefinitions =
                   newTaskDef[a].ContainerDefinitions
            /\ Cardinality({n \in 1..Len(Appended) :
                   Appended[n].revision = registerdTaskDef[a].Revision}) = 1
            /\ \A n \in 1..Len(Appended) :
                   Appended[n].revision = registerdTaskDef[a].Revision =>
                       /\ Contains(Appended[n].message, SprintfD(taskDef[a].Revision))
                       /\ Contains(Appended[n].message,
                                   SprintfD(registerdTaskDef[a].Revision))
                       /\ taskDef[a].Revision # registerdTaskDef[a].Revision

C9_Witness ==
    \E a \in Attempts :
        /\ Deployed(a)
        /\ pc[a] = "exit"
        /\ taskDef[a].Revision = 1
        /\ Len(Appended) = 1

\* what C10 says of the tags: every BatchGetImage/PutImage pair of the
\* attempt writes the tag uniqueID, and every image of the new task definition
\* has the tag uniqueID
UniqueIDIsTheTag(a) ==
    /\ \A k \in CallsOf(a, "PutImage") : calls[a][k].tag = uniqueID[a]
    /\ Created(a) =>
           \A n \in 1..Len(newTaskDef[a].ContainerDefinitions) :
               TagPart(newTaskDef[a].ContainerDefinitions[n].Image) = uniqueID[a]
    /\ \A k \in CallsOf(a, "RegisterTaskDefinition") :
           \A n \in 1..Len(calls[a][k].params.ContainerDefinitions) :
               TagPart(calls[a][k].params.ContainerDefinitions[n].Image) = uniqueID[a]

\* C10 as claimed: the uniqueID is the tag of every retag and of every
\* rewritten image, and the message of the attempt's history entry holds it.
C10_UniqueIDEverywhere ==
    \A a \in Attempts :
        /\ UniqueIDIsTheTag(a)
        /\ \A k \in CallsOf(a, "PushState") :
               Contains(calls[a][k].message, <<uniqueID[a]>>)

\* C10 amended: the uniqueID, once generated, never changes; it is the tag of
\* every retag and of every rewritten image; the message handed to PushState
\* is "deploy: <baseline revision> -> <registered revision>", which does not
\* hold the uniqueID.
C10_UniqueIDInTagsOnly ==
    /\ [](\A a \in Attempts :
              /\ UniqueIDIsTheTag(a)
              /\ \A k \in CallsOf(a, "PushState") :
                     /\ calls[a][k].message =
                            SprintfDeploy(taskDef[a].Revision, registerdTaskDef[a].Revision)
                     /\ ~Contains(calls[a][k].message, <<uniqueID[a]>>))
    /\ [][\A a \in Attempts : uniqueID[a] # None => uniqueID'[a] = uniqueID[a]]_vars

C10_Witness ==
    \E a \in Attempts :
        /\ Succeeded(a, "PushState") # {}
        /\ Cardinality(Succeeded(a, "PutImage")) = 2
        /\ Len(newTaskDef[a].ContainerDefinitions) = 2

\* the notifications of the given severity the attempt sent
Notified(a, severity) == {n \in 1..Len(slack[a]) : slack[a][n].severity = severity}

\* C11 as claimed: a command that ended with an error of execute has sent a
\* danger notification that holds the cluster, the service name and the stage
\* that failed (the error); a command that ended without an error has sent none.
C11_FailureNotificationNamesStage ==
    \A a \in Attempts :
        pc[a] = "exit" =>
            IF err[a] # None
            THEN \E n \in Notified(a, "danger") :
                     /\ Contains(slack[a][n].msg, <<f[a].cluster>>)
                     /\ Contains(slack[a][n].msg, <<f[a].serviceName>>)
                     /\ Contains(slack[a][n].msg, <<err[a]>>)
            ELSE Notified(a, "danger") = {}

\* C11 amended: a command that ended with an error of execute keeps that
\* error as its result and has sent exactly one danger notification, its last,
\* which is "failed to deploy. cluster: <cluster>, serviceName: <service>" and
\* does not hold the error; a command that ended without an error has sent no
\* danger notification; and an attempt whose PushState succeeded ends without
\* an error whatever was notified.
C11_FailureNotificationNamesService ==
    \A a \in Attempts :
        /\ pc[a] = "exit" =>
               IF err[a] # None
               THEN /\ Notified(a, "danger") = {Len(slack[a])}
                    /\ Notified(a, "good") = {}
                    /\ slack[a][Len(slack[a])].msg =
                           <<"failed to deploy. cluster: ", f[a].cluster,
                             ", serviceName: ", f[a].serviceName, "\n">>
                    /\ ~Contains(slack[a][Len(slack[a])].msg, <<err[a]>>)
               ELSE /\ Notified(a, "danger") = {}
                    /\ Notified(a, "good") = {Len(slack[a])}
        /\ pc[a] # "exit" => Notified(a, "danger") = {}
        /\ (Ended(a) /\ Succeeded(a, "PushState") # {}) => err[a] = None
        /\ (Ended(a) /\ Succeeded(a, "PushState") = {}) => err[a] # None

C11_Witness ==
    \E a \in Attempts :
        /\ pc[a] = "exit"
        /\ err[a] = "WaitUpdateService"
        /\ Notified(a, "danger") # {}
        /\ Notified(a, "normal") # {}

\* whether the --image options hold one for the repository of the container
HasOption(a, c) ==
    imageOptionsGet(f[a].images, parseDockerImage(c.Image).img.RepositoryName) # <<>>

\* C12 as claimed: an attempt that returned the missing-image-option error
\* has an in-scope baseline container whose repository has no --image option.
C12_MissingOptionOnlyInScope ==
    \A a \in Attempts :
        (Ended(a) /\ err[a] = "can not found image option") =>
            \E n \in 1..Len(taskDef[a].ContainerDefinitions) :
                /\ InScope(taskDef[a].ContainerDefinitions[n])
                /\ ~HasOption(a, taskDef[a].ContainerDefinitions[n])

\* the successful retags: <<attempt, position of the PutImage call>>, the
\* call before it being tagDockerImage's BatchGetImage of fromTag
Retags == UNION {{<<a, k>> : k \in Succeeded(a, "PutImage")} : a \in Attempts}

RetagRepo(r) == calls[r[1]][r[2]].repoName
RetagFrom(r) == calls[r[1]][r[2] - 1].tag
RetagTo(r) == calls[r[1]][r[2]].tag

\* C13: after a successful retag the repository's toTag holds the manifest
\* BatchGetImage returned for fromTag, which fromTag still holds; no tag other
\* than the toTags of successful retags has changed; so two retags of the same
\* repository and fromTag leave their toTags with the same manifest.
C13_RetagCopiesManifest ==
    /\ \A r \in Retags :
           /\ calls[r[1]][r[2] - 1].op = "BatchGetImage"
           /\ calls[r[1]][r[2] - 1].repoName = RetagRepo(r)
           /\ calls[r[1]][r[2]].manifest = InitialRegistry[RetagRepo(r)][RetagFrom(r)]
           /\ registry[RetagRepo(r)][RetagTo(r)] = calls[r[1]][r[2]].manifest
           /\ registry[RetagRepo(r)][RetagFrom(r)] =
                  InitialRegistry[RetagRepo(r)][RetagFrom(r)]
    /\ \A repo \in Repositories :
           \A t \in DOMAIN registry[repo] :
               registry[repo][t] # InitialRegistry[repo][t] =>
                   \E r \in Retags : RetagRepo(r) = repo /\ RetagTo(r) = t
    /\ \A r1, r2 \in Retags :
           (RetagRepo(r1) = RetagRepo(r2) /\ RetagFrom(r1) = RetagFrom(r2)) =>
               registry[RetagRepo(r1)][RetagTo(r1)] = registry[RetagRepo(r2)][RetagTo(r2)]

C13_Witness ==
    \E r1, r2 \in Retags :
        /\ RetagRepo(r1) = RetagRepo(r2)
        /\ RetagFrom(r1) = RetagFrom(r2)
        /\ RetagTo(r1) # RetagTo(r2)
        /\ registry[RetagRepo(r1)][RetagTo(r1)] = "sha256:app1"
        /\ registry[RetagRepo(r2)][RetagTo(r2)] = "sha256:app1"


\* the attempt's BatchGetImage calls that returned no error and no image: the
\* repository holds nothing under the tag asked for
NoImageFound(a) ==
    {k \in Succeeded(a, "BatchGetImage") :
        registry[calls[a][k].repoName][calls[a][k].tag] = None}

\* C14: when the registry lookup finds no image under fromTag, tagDockerImage
\* returns an error to its caller: the attempt ends with an error, it does not
\* crash, and it calls PutImage no more.
C14_MissingImageIsAnError ==
    \A a \in Attempts :
        \A k \in NoImageFound(a) :
            /\ Failed(a)
            /\ pc[a] # "panicked"
            /\ \A j \in CallsOf(a, "PutImage") : j < k


\* the attempt's retag calls that failed: a fetch or a write the registry
\* rejected, or a fetch that found no image
FailedRetags(a) ==
    Rejected(a, "BatchGetImage") \cup Rejected(a, "PutImage") \cup NoImageFound(a)

\* the failed retag is the last call the attempt makes
AbortsAt(a, k) == k = Len(calls[a])

\* C15: when the retag of a container fails the attempt aborts at once, with no
\* later retag, registration, service update or history entry, and it leaves
\* nothing partially applied: no tag it wrote for an earlier container stays.
C15_RetagFailureAppliesNothing ==
    \A a \in Attempts :
        \A k \in FailedRetags(a) :
            /\ AbortsAt(a, k)
            /\ \A r \in Repositories : registry[r][uniqueID[a]] = None


\* the attempt is past the check of line 106 and has not yet seen the service
\* converge: it is retagging, registering, updating or waiting
InProgress(a) ==
    pc[a] \in {"uniqueID", "DescribeTaskDefinition", "createNewTaskDefinition", "retag",
               "PutImage", "registerTaskDefinition", "UpdateService", "WaitUpdateService"}

\* C16 as stated: of two attempts against the same service at most one is past
\* the check of the deployments and still in progress.
C16_AtMostOneInProgress ==
    \A a, b \in Attempts : a # b => ~(InProgress(a) /\ InProgress(b))

\* C16: an attempt gets past the check only in a step that reads the service
\* with at most one deployment; the check is a read of the platform's state and
\* keeps no other attempt out, so two attempts that both read before either
\* updates the service are in progress together.
C16_PassesOnlyWhenIdle ==
    [][\A a \in Attempts :
           (pc[a] = "DescribeService" /\ pc'[a] = "uniqueID")
               => /\ ecsService.Deployments <= 1
                  /\ service'[a] = ecsService]_vars

\* both attempts passed the check, and one has updated the service while the
\* other is still in progress
C16_Witness ==
    \E a, b \in Attempts :
        /\ a # b
        /\ InProgress(a) /\ InProgress(b)
        /\ Succeeded(a, "UpdateService") # {}
        /\ service[b].Deployments <= 1


\* the fields a registration request may carry
RequestFields == TopLevelFields \cup {"ContainerDefinitions"}

\* C17: every registration request carries the whitelisted fields and no
\* other, each with the value the transformed task definition has for it; the
\* revision, the ARN and the status of a task definition are not in it.
C17_RequestIsWhitelisted ==
    \A a \in Attempts :
        \A k \in CallsOf(a, "RegisterTaskDefinition") :
            LET params == calls[a][k].params IN
            /\ DOMAIN params = RequestFields
            /\ \A field \in RequestFields : params[field] = newTaskDef[a][field]
            /\ {"Revision", "TaskDefinitionArn", "Status"} \cap DOMAIN params = {}

\* a registration was requested for a transformed task definition that still
\* carries the baseline's revision, ARN and status
C17_Witness ==
    \E a \in Attempts :
        /\ CallsOf(a, "RegisterTaskDefinition") # {}
        /\ newTaskDef[a].Revision = taskDef[a].Revision
        /\ newTaskDef[a].TaskDefinitionArn = taskDef[a].TaskDefinitionArn
        /\ newTaskDef[a].Status = "ACTIVE"
        /\ newTaskDef[a].ContainerDefinitions # taskDef[a].ContainerDefinitions


\* C18: for the image of every container of a baseline, with a tag or without,
\* parseDockerImage returns an image or returns an error, and so no attempt
\* crashes in createNewTaskDefinition's parse of the images.
C18_ParseReturnsImageOrError ==
    \A a \in Attempts :
        /\ pc[a] = "createNewTaskDefinition" =>
               \A k \in 1..Len(taskDef[a].ContainerDefinitions) :
                   parseDockerImage(taskDef[a].ContainerDefinitions[k].Image).status
                       \in {"ok", "err"}
        /\ ~(pc[a] = "panicked" /\ CallsOf(a, "BatchGetImage") = {})


\* the task definitions DescribeTaskDefinition returned to the attempt: the
\* registered ones of the ARN it asked for
Described(a) ==
    {taskDefs[r] : r \in
        {r \in 1..Len(taskDefs) :
            \E k \in Succeeded(a, "DescribeTaskDefinition") :
                taskDefs[r].TaskDefinitionArn = calls[a][k].arn}}

\* which of the attempt's BatchGetImage calls the call at position k is
TurnOf(a, k) == Cardinality({j \in CallsOf(a, "BatchGetImage") : j <= k})

\* C19: createNewTaskDefinition leaves the baseline as DescribeTaskDefinition
\* returned it, whether it returns a task definition, returns an error or
\* panics: the container list, the containers' images and the revision are the
\* same, so each turn of the retag loop reads the repository of the original
\* image and the history message names the original revision.
C19_BaselineUnchanged ==
    \A a \in Attempts :
        \A described \in Described(a) :
            /\ taskDef[a] = described
            /\ \A k \in CallsOf(a, "BatchGetImage") :
                   calls[a][k].repoName =
                       parseDockerImage(
                           described.ContainerDefinitions[TurnOf(a, k)].Image
                       ).img.RepositoryName
            /\ \A k \in CallsOf(a, "PushState") :
                   calls[a][k].message =
                       SprintfDeploy(described.Revision, registerdTaskDef[a].Revision)

\* createNewTaskDefinition returned a task definition with an image rewritten,
\* the retag loop ran and the history message was written
C19_Witness ==
    \E a \in Attempts :
        /\ Created(a)
        /\ Described(a) # {}
        /\ \E k \in 1..Len(newTaskDef[a].ContainerDefinitions) :
               \A c \in 1..Len(taskDef[a].ContainerDefinitions) :
                   newTaskDef[a].ContainerDefinitions[k].Image #
                       taskDef[a].ContainerDefinitions[c].Image
        /\ CallsOf(a, "BatchGetImage") # {}
        /\ CallsOf(a, "PushState") # {}


\* the revisions the platform registered for the attempt's registration
\* requests: revisions 1 and 2 are there from the start
RegisteredFor(a) ==
    {r \in 3..Len(taskDefs) :
        \E j \in Succeeded(a, "RegisterTaskDefinition") :
            RegisterTaskDefinitionInput(taskDefs[r]) = calls[a][j].params}

\* C20: every UpdateService call of an attempt comes after a registration of
\* that attempt that succeeded, and it is handed the revision that
\* registration returned: not the baseline's, and not the one the service ran
\* when the attempt read it.
C20_UpdateTargetsRegistered ==
    \A a \in Attempts :
        \A k \in CallsOf(a, "UpdateService") :
            /\ \E j \in Succeeded(a, "RegisterTaskDefinition") : j < k
            /\ Rejected(a, "RegisterTaskDefinition") = {}
            /\ calls[a][k].arn = registerdTaskDef[a].TaskDefinitionArn
            /\ \E r \in RegisteredFor(a) : calls[a][k].arn = TaskDefinitionArn(r)
            /\ calls[a][k].arn # taskDef[a].TaskDefinitionArn
            /\ calls[a][k].arn # service[a].TaskDefinition

\* the service was updated in an attempt whose baseline, chosen by --revision,
\* is not the revision the service ran
C20_Witness ==
    \E a \in Attempts :
        /\ Succeeded(a, "UpdateService") # {}
        /\ taskDef[a].TaskDefinitionArn # service[a].TaskDefinition
        /\ ecsService.TaskDefinition = registerdTaskDef[a].TaskDefinitionArn

====
